---- MODULE Spec2Model ----
(***************************************************************************)
(* Model of btlewrap/bleakbackend.py: the retry decorator wrap_exception   *)
(* and the BleakBackend session (connect, disconnect, read_handle,         *)
(* write_handle, wait_for_notification, scan_for_devices).                 *)
(*                                                                         *)
(* Every session method is an `async def` decorated with wrap_exception.   *)
(* Calling such a method runs the synchronous _func_wrapper, whose         *)
(* call of func only CREATES the coroutine object and returns it;          *)
(* the method body runs later, when the caller awaits that coroutine,      *)
(* outside the wrapper's try/except.  The model keeps these two phases     *)
(* apart: pc = "wrapper" is the decorator's loop, pc = "coro" is the       *)
(* returned coroutine about to be awaited, the *_await values are the      *)
(* suspension points inside the transport provider.                        *)
(*                                                                         *)
(* The decorator itself accepts any callable; besides the session methods  *)
(* the model feeds it an ordinary synchronous callable (op = "sync") that  *)
(* raises inside the call, following a plan: k transient failures, then    *)
(* either success or a non-transient error.                                *)
(***************************************************************************)
EXTENDS Integers, Sequences, FiniteSets, TLC

\* ---- bounds of the model ----
MaxTok == 3        \* connections the transport grants during one run
MaxHandle == 2     \* handles passed by the caller are 0..MaxHandle
MaxK == 4          \* planned transient failures of the synchronous callable
MaxDev == 2        \* devices one discovery yields

\* ---- program constants ----
RETRY_LIMIT == 3
None == 0
DATA_MODE_LISTEN == "0100"

Callers == {1, 2}
Handles == 0..MaxHandle
Values == {"b0", "b1"}
Tokens == 1..MaxTok
Names == {"n1", "NoName"}
Addresses == {"A", "B"}
Devices == [address : Addresses, name : Names]
Discoveries == UNION {[1..n -> Devices] : n \in 0..MaxDev}

SessionOps == {"connect", "disconnect", "read_handle", "write_handle",
               "wait_for_notification", "scan_for_devices"}
Ops == SessionOps \cup {"sync", "check_backend"}
Plans == [k : 0..MaxK, then : {"ok", "OtherError"}]
NoPlan == [k |-> 0, then |-> "ok"]

\* BluetoothBackendException is raised in two places: the precondition
\* ("not connected to backend") and the exhausted retry loop.
BackendErrors == {"NotConnected", "RetryExhausted"}

VARIABLES
    peripheral,    \* self._peripheral: None or the stored connection token
    nextTok,       \* the token the transport grants next
    handed,        \* tokens whose disconnect() the session has called
    bleakPresent,  \* whether `import bleak` succeeds in this environment
    concurrent,    \* whether callers may overlap their calls on the session
    prev,          \* the call that completed last on the session
    call           \* per caller: the call in progress

vars == <<peripheral, nextTok, handed, bleakPresent, concurrent, prev, call>>

IdleCall ==
    [pc |-> "idle", op |-> "none", handle |-> 0, value |-> "b0", plan |-> NoPlan,
     pre |-> None, attempts |-> 0, error_count |-> 0, last_error |-> 0,
     delays |-> 0, calls |-> <<>>, pending |-> <<>>,
     kind |-> "none", exc |-> "none", cause |-> 0, ret |-> "none",
     discovered |-> <<>>, scanned |-> <<>>, errlog |-> 0]

NoPrev == [op |-> "none", kind |-> "none", exc |-> "none"]

\* A call the session made on the transport provider.
TCall(fn, tok, h, v, ack) ==
    [fn |-> fn, tok |-> tok, h |-> h, v |-> v, ack |-> ack, ret |-> "pending"]

\* The record of a transport call once the transport has answered.
Answered(cs, r) == [cs EXCEPT ![Len(cs)] = [@ EXCEPT !.ret = r]]

\* async def: calling the function returns a coroutine and runs nothing.
IsAsync(o) == o \in SessionOps

\* check_backend carries no @wrap_exception: calling it gives its coroutine.
Decorated(o) == o /= "check_backend"

\* check_backend: True when the import succeeds, False after the ImportError.
CheckBackendAlways(present) == "True"
CheckBackendResult(present) == IF present THEN "True" ELSE "False"

\* while error_count < RETRY_LIMIT
RetryLoopCondOff(ec) == ec <= RETRY_LIMIT
RetryLoopCond(ec) == ec < RETRY_LIMIT

\* except (BleakDBusError, BleakError)
IsTransientAll(e) == e /= "ok"
IsTransient(e) == e \in {"BleakDBusError", "BleakError"}

\* last_error = exception: the error of the n-th invocation replaces the
\* one kept so far.
LastErrorFirst(old, n) == IF old = 0 THEN n ELSE old
LastError(old, n) == n

\* time.sleep(RETRY_DELAY) in the except block: one more delay served.
SleepUnlessLast(d, ec) == IF ec < RETRY_LIMIT THEN d + 1 ELSE d
Sleep(d, ec) == d + 1

\* if self._peripheral is None
NotConnectedNever(p) == FALSE
NotConnected(p) == p = None

\* handle - 1
NativeHandleSame(h) == h
NativeHandle(h) == h - 1

\* What the synchronous callable does on its i-th invocation.
SyncOutcome(pl, i) == IF i <= pl.k THEN "BleakError" ELSE pl.then

\* result.append((device.address, device.name)) for each discovered device
RECURSIVE ScanCollectDedup(_, _)
ScanCollectDedup(devs, result) ==
    IF devs = <<>> THEN result
    ELSE LET p == <<Head(devs).address, Head(devs).name>> IN
         ScanCollectDedup(Tail(devs),
                          IF \E i \in 1..Len(result) : result[i] = p
                          THEN result ELSE Append(result, p))
RECURSIVE ScanCollect(_, _)
ScanCollect(devs, result) ==
    IF devs = <<>> THEN result
    ELSE ScanCollect(Tail(devs), Append(result, <<Head(devs).address, Head(devs).name>>))

Returned(r, val) == [r EXCEPT !.pc = "done", !.kind = "return", !.ret = val]
Raised(r, e, cause) == [r EXCEPT !.pc = "done", !.kind = "raise", !.exc = e, !.cause = cause]

Init ==
    /\ peripheral = None
    /\ nextTok = 1
    /\ handed = {}
    /\ bleakPresent \in BOOLEAN
    /\ concurrent = FALSE
    /\ prev = NoPrev
    /\ call = [c \in Callers |-> IdleCall]

\* The caller invokes a decorated function.  wrap_exception returned func
\* itself when bleak could not be imported, _func_wrapper otherwise.
\* error_count = 0 and last_error = None are locals of each invocation.
StartCallShared(c, o, h, v, pl) ==
    /\ call[c].pc = "idle"
    /\ concurrent \/ \A d \in Callers : call[d].pc = "idle"
    /\ o = "connect" => nextTok <= MaxTok
    /\ call' = [call EXCEPT ![c] =
                  [IdleCall EXCEPT !.pc = IF ~Decorated(o) THEN "coro"
                                          ELSE IF bleakPresent THEN "wrapper" ELSE "func",
                                   !.op = o, !.handle = h, !.value = v, !.plan = pl,
                                   !.pre = peripheral,
                                   !.error_count =
                                       IF \E d \in Callers \ {c} : call[d].error_count > 0
                                       THEN 1 ELSE 0]]
    /\ UNCHANGED <<peripheral, nextTok, handed, bleakPresent, concurrent, prev>>
StartCall(c, o, h, v, pl) ==
    /\ call[c].pc = "idle"
    /\ concurrent \/ \A d \in Callers : call[d].pc = "idle"
    /\ o = "connect" => nextTok <= MaxTok
    /\ call' = [call EXCEPT ![c] =
                  [IdleCall EXCEPT !.pc = IF ~Decorated(o) THEN "coro"
                                          ELSE IF bleakPresent THEN "wrapper" ELSE "func",
                                   !.op = o, !.handle = h, !.value = v, !.plan = pl,
                                   !.pre = peripheral]]
    /\ UNCHANGED <<peripheral, nextTok, handed, bleakPresent, concurrent, prev>>

\* The arguments the callers pass.  With overlapping calls the model follows
\* the interleavings and keeps one handle, one value, the callables that
\* succeed in the end and discoveries of at most one device.
HandlesIn == IF concurrent THEN {1} ELSE Handles
ValuesIn == IF concurrent THEN {"b0"} ELSE Values
PlansIn == IF concurrent THEN {pl \in Plans : pl.then = "ok" /\ pl.k <= RETRY_LIMIT}
           ELSE Plans
DiscoveriesIn == IF concurrent THEN {d \in Discoveries : Len(d) <= 1 /\ \A i \in 1..Len(d) : d[i] = [address |-> "A", name |-> "n1"]}
                 ELSE Discoveries

Start(c) ==
    \/ \E o \in {"connect", "disconnect", "scan_for_devices", "check_backend"} :
          StartCall(c, o, 0, "b0", NoPlan)
    \/ \E h \in HandlesIn : StartCall(c, "read_handle", h, "b0", NoPlan)
    \/ \E h \in HandlesIn : StartCall(c, "wait_for_notification", h, "b0", NoPlan)
    \/ \E h \in HandlesIn, v \in ValuesIn : StartCall(c, "write_handle", h, v, NoPlan)
    \/ \E pl \in PlansIn : StartCall(c, "sync", 0, "b0", pl)

\* One invocation of func with the outcome e, seen from _func_wrapper's
\* try block: return the value, catch a transient error, or let it through.
AttemptStep(r, e) ==
    LET n == r.attempts + 1 IN
    IF IsAsync(r.op) THEN [r EXCEPT !.pc = "coro", !.attempts = n]
    ELSE IF e = "ok" THEN Returned([r EXCEPT !.attempts = n], "ok")
    ELSE IF IsTransient(e)
         THEN [r EXCEPT !.attempts = n, !.error_count = @ + 1,
                        !.last_error = LastError(@, n),
                        !.delays = Sleep(@, r.error_count + 1)]
    ELSE Raised([r EXCEPT !.attempts = n], e, 0)

\* _func_wrapper: one turn of the while loop.
WrapperAttempt(c) ==
    /\ call[c].pc = "wrapper"
    /\ RetryLoopCond(call[c].error_count)
    /\ call' = [call EXCEPT ![c] =
                  AttemptStep(@, SyncOutcome(@.plan, @.attempts + 1))]
    /\ UNCHANGED <<peripheral, nextTok, handed, bleakPresent, concurrent, prev>>

\* _func_wrapper: raise BluetoothBackendException() from last_error
WrapperExhausted(c) ==
    /\ call[c].pc = "wrapper"
    /\ ~RetryLoopCond(call[c].error_count)
    /\ call' = [call EXCEPT ![c] = Raised(@, "RetryExhausted", @.last_error)]
    /\ UNCHANGED <<peripheral, nextTok, handed, bleakPresent, concurrent, prev>>

\* The undecorated function, called directly (bleak missing at import time).
PassthroughWraps(c) ==
    /\ call[c].pc = "func"
    /\ call' = [call EXCEPT ![c] = [@ EXCEPT !.pc = "wrapper"]]
    /\ UNCHANGED <<peripheral, nextTok, handed, bleakPresent, concurrent, prev>>
Passthrough(c) ==
    /\ call[c].pc = "func"
    /\ LET r == call[c]
           e == SyncOutcome(r.plan, 1)
           r1 == [r EXCEPT !.attempts = 1] IN
       call' = [call EXCEPT ![c] =
                  IF IsAsync(r.op) THEN [r1 EXCEPT !.pc = "coro"]
                  ELSE IF e = "ok" THEN Returned(r1, "ok")
                  ELSE Raised(r1, e, 0)]
    /\ UNCHANGED <<peripheral, nextTok, handed, bleakPresent, concurrent, prev>>

\* ---- the coroutine bodies, run when the caller awaits the coroutine ----

\* connect, up to the suspension in BleakClient(mac).connect().  The import
\* inside the body raises ImportError when bleak is missing.
ConnectBody(c) ==
    /\ call[c].pc = "coro" /\ call[c].op = "connect"
    /\ call' = [call EXCEPT ![c] =
                  IF ~bleakPresent THEN Raised(@, "ImportError", 0)
                  ELSE [@ EXCEPT !.pc = "connect_await",
                                 !.calls = Append(@, TCall("connect", None, 0, "b0", FALSE))]]
    /\ UNCHANGED <<peripheral, nextTok, handed, bleakPresent, concurrent, prev>>

\* The transport grants the connection: self._peripheral = <awaited value>.
ConnectOkDrops(c) ==
    /\ nextTok' = nextTok + 1
    /\ call' = [call EXCEPT ![c] =
                  Returned([@ EXCEPT !.calls = Answered(@, "token")], "None")]
    /\ UNCHANGED <<peripheral, handed, bleakPresent, concurrent, prev>>
ConnectOk(c) ==
    /\ peripheral' = nextTok
    /\ nextTok' = nextTok + 1
    /\ call' = [call EXCEPT ![c] =
                  Returned([@ EXCEPT !.calls = Answered(@, "token")], "None")]
    /\ UNCHANGED <<handed, bleakPresent, concurrent, prev>>

\* The transport's connect raises: the assignment is never reached.
ConnectFailStores(c) ==
    /\ peripheral' = nextTok
    /\ nextTok' = nextTok + 1
    /\ call' = [call EXCEPT ![c] =
                  Raised([@ EXCEPT !.calls = Answered(@, "BleakError")], "BleakError", 0)]
    /\ UNCHANGED <<handed, bleakPresent, concurrent, prev>>
ConnectFail(c) ==
    /\ call' = [call EXCEPT ![c] =
                  Raised([@ EXCEPT !.calls = Answered(@, "BleakError")], "BleakError", 0)]
    /\ UNCHANGED <<peripheral, nextTok, handed, bleakPresent, concurrent, prev>>

ConnectResume(c) ==
    /\ call[c].pc = "connect_await"
    /\ (ConnectOk(c) \/ ConnectFail(c))

\* disconnect, up to the suspension in self._peripheral.disconnect().
DisconnectBody(c) ==
    /\ call[c].pc = "coro" /\ call[c].op = "disconnect"
    /\ IF NotConnected(peripheral)
       THEN /\ call' = [call EXCEPT ![c] = Returned(@, "None")]
            /\ UNCHANGED handed
       ELSE /\ call' = [call EXCEPT ![c] =
                          [@ EXCEPT !.pc = "disc_await",
                                    !.calls = Append(@, TCall("disconnect", peripheral, 0, "b0", FALSE))]]
            /\ handed' = handed \cup {peripheral}
    /\ UNCHANGED <<peripheral, nextTok, bleakPresent, concurrent, prev>>

\* The release returns, then self._peripheral = None; or the release raises
\* and the assignment is skipped.
DisconnectResumeOwn(c) ==
    /\ call[c].pc = "disc_await"
    /\ \/ /\ peripheral' = IF peripheral = call[c].calls[1].tok THEN None ELSE peripheral
          /\ call' = [call EXCEPT ![c] =
                        Returned([@ EXCEPT !.calls = Answered(@, "None")], "None")]
       \/ /\ call' = [call EXCEPT ![c] =
                        Raised([@ EXCEPT !.calls = Answered(@, "BleakError")], "BleakError", 0)]
          /\ UNCHANGED peripheral
    /\ UNCHANGED <<nextTok, handed, bleakPresent, concurrent, prev>>
DisconnectResume(c) ==
    /\ call[c].pc = "disc_await"
    /\ \/ /\ peripheral' = None
          /\ call' = [call EXCEPT ![c] =
                        Returned([@ EXCEPT !.calls = Answered(@, "None")], "None")]
       \/ /\ call' = [call EXCEPT ![c] =
                        Raised([@ EXCEPT !.calls = Answered(@, "BleakError")], "BleakError", 0)]
          /\ UNCHANGED peripheral
    /\ UNCHANGED <<nextTok, handed, bleakPresent, concurrent, prev>>

\* read_handle, up to the suspension in read_gatt_char(handle - 1).
ReadBody(c) ==
    /\ call[c].pc = "coro" /\ call[c].op = "read_handle"
    /\ call' = [call EXCEPT ![c] =
                  IF NotConnected(peripheral) THEN Raised(@, "NotConnected", 0)
                  ELSE [@ EXCEPT !.pc = "read_await",
                                 !.calls = Append(@, TCall("read_gatt_char", peripheral,
                                                           NativeHandle(call[c].handle), "b0", FALSE))]]
    /\ UNCHANGED <<peripheral, nextTok, handed, bleakPresent, concurrent, prev>>

\* The value handed to the caller when the transport's read returned b.
ReadResult(b) == b

ReadResumeResets(c) ==
    /\ call[c].pc = "read_await"
    /\ \/ /\ \E b \in ValuesIn :
               call' = [call EXCEPT ![c] =
                          Returned([@ EXCEPT !.calls = Answered(@, b)], ReadResult(b))]
          /\ UNCHANGED peripheral
       \/ /\ call' = [call EXCEPT ![c] =
                        Raised([@ EXCEPT !.calls = Answered(@, "BleakError")], "BleakError", 0)]
          /\ peripheral' = None
    /\ UNCHANGED <<nextTok, handed, bleakPresent, concurrent, prev>>
ReadResume(c) ==
    /\ call[c].pc = "read_await"
    /\ \/ \E b \in ValuesIn :
            call' = [call EXCEPT ![c] =
                       Returned([@ EXCEPT !.calls = Answered(@, b)], ReadResult(b))]
       \/ call' = [call EXCEPT ![c] =
                     Raised([@ EXCEPT !.calls = Answered(@, "BleakError")], "BleakError", 0)]
    /\ UNCHANGED <<peripheral, nextTok, handed, bleakPresent, concurrent, prev>>

\* write_handle, up to the suspension in write_gatt_char(handle - 1, value, True).
WriteBody(c) ==
    /\ call[c].pc = "coro" /\ call[c].op = "write_handle"
    /\ call' = [call EXCEPT ![c] =
                  IF NotConnected(peripheral) THEN Raised(@, "NotConnected", 0)
                  ELSE [@ EXCEPT !.pc = "write_await",
                                 !.calls = Append(@, TCall("write_gatt_char", peripheral,
                                                           NativeHandle(call[c].handle),
                                                           call[c].value, TRUE))]]
    /\ UNCHANGED <<peripheral, nextTok, handed, bleakPresent, concurrent, prev>>

WriteResume(c) ==
    /\ call[c].pc = "write_await"
    /\ \/ call' = [call EXCEPT ![c] =
                     Returned([@ EXCEPT !.calls = Answered(@, "None")], "None")]
       \/ call' = [call EXCEPT ![c] =
                     Raised([@ EXCEPT !.calls = Answered(@, "BleakError")], "BleakError", 0)]
    /\ UNCHANGED <<peripheral, nextTok, handed, bleakPresent, concurrent, prev>>

\* wait_for_notification.  The body has no await: it runs in one piece.
\* self.write_handle(handle, self._DATA_MODE_LISTEN) calls the decorated
\* write_handle, which returns a coroutine; the coroutine is not awaited, so
\* it stays pending and its body (the transport write) does not run.  Then
\* withDelegate(delegate) and waitForNotifications(timeout) are called on
\* the token; the latter's answer, or its error, is the outcome.
NotifyBody(c) ==
    /\ call[c].pc = "coro" /\ call[c].op = "wait_for_notification"
    /\ IF NotConnected(peripheral)
       THEN call' = [call EXCEPT ![c] = Raised(@, "NotConnected", 0)]
       ELSE LET r == [call[c] EXCEPT
                        !.pending = Append(@, [op |-> "write_handle", handle |-> call[c].handle,
                                               value |-> DATA_MODE_LISTEN]),
                        !.calls = @ \o <<[TCall("withDelegate", peripheral, 0, "b0", FALSE)
                                             EXCEPT !.ret = "None"],
                                         TCall("waitForNotifications", peripheral, 0, "b0", FALSE)>>]
            IN \/ \E b \in {"True", "False"} :
                    call' = [call EXCEPT ![c] =
                               Returned([r EXCEPT !.calls = Answered(@, b)], b)]
               \/ call' = [call EXCEPT ![c] =
                             Raised([r EXCEPT !.calls = Answered(@, "BleakError")], "BleakError", 0)]
    /\ UNCHANGED <<peripheral, nextTok, handed, bleakPresent, concurrent, prev>>

\* scan_for_devices, up to the suspension in scanner.discover(timeout).
ScanBodyChecked(c) ==
    /\ call[c].pc = "coro" /\ call[c].op = "scan_for_devices"
    /\ call' = [call EXCEPT ![c] =
                  IF ~bleakPresent THEN Raised(@, "ImportError", 0)
                  ELSE IF NotConnected(peripheral) THEN Raised(@, "NotConnected", 0)
                  ELSE [@ EXCEPT !.pc = "scan_await",
                                 !.calls = Append(@, TCall("discover", peripheral, 0, "b0", FALSE))]]
    /\ UNCHANGED <<peripheral, nextTok, handed, bleakPresent, concurrent, prev>>
ScanBody(c) ==
    /\ call[c].pc = "coro" /\ call[c].op = "scan_for_devices"
    /\ call' = [call EXCEPT ![c] =
                  IF ~bleakPresent THEN Raised(@, "ImportError", 0)
                  ELSE [@ EXCEPT !.pc = "scan_await",
                                 !.calls = Append(@, TCall("discover", None, 0, "b0", FALSE))]]
    /\ UNCHANGED <<peripheral, nextTok, handed, bleakPresent, concurrent, prev>>

ScanResume(c) ==
    /\ call[c].pc = "scan_await"
    /\ \/ \E devs \in DiscoveriesIn :
            call' = [call EXCEPT ![c] =
                       Returned([@ EXCEPT !.calls = Answered(@, "devices"),
                                          !.discovered = devs,
                                          !.scanned = ScanCollect(devs, <<>>)], "list")]
       \/ call' = [call EXCEPT ![c] =
                     Raised([@ EXCEPT !.calls = Answered(@, "BleakError")], "BleakError", 0)]
    /\ UNCHANGED <<peripheral, nextTok, handed, bleakPresent, concurrent, prev>>

\* check_backend: the import is tried; only ImportError is caught, logged
\* with _LOGGER.error, and answered with False.
CheckBackend(c) ==
    /\ call[c].pc = "coro" /\ call[c].op = "check_backend"
    /\ call' = [call EXCEPT ![c] =
                  Returned([@ EXCEPT !.errlog = IF bleakPresent THEN @ ELSE @ + 1],
                           CheckBackendResult(bleakPresent))]
    /\ UNCHANGED <<peripheral, nextTok, handed, bleakPresent, concurrent, prev>>

\* The caller takes the outcome; the call's locals are gone.  "The call
\* before this one" is kept for callers that take turns only.
Return(c) ==
    /\ call[c].pc = "done"
    /\ prev' = IF concurrent THEN prev
               ELSE [op |-> call[c].op, kind |-> call[c].kind, exc |-> call[c].exc]
    /\ call' = [call EXCEPT ![c] = IdleCall]
    /\ UNCHANGED <<peripheral, nextTok, handed, bleakPresent, concurrent>>

Next ==
    \E c \in Callers :
        \/ Start(c)
        \/ WrapperAttempt(c)
        \/ WrapperExhausted(c)
        \/ Passthrough(c)
        \/ ConnectBody(c)
        \/ ConnectResume(c)
        \/ DisconnectBody(c)
        \/ DisconnectResume(c)
        \/ ReadBody(c)
        \/ ReadResume(c)
        \/ WriteBody(c)
        \/ WriteResume(c)
        \/ NotifyBody(c)
        \/ ScanBody(c)
        \/ ScanResume(c)
        \/ CheckBackend(c)
        \/ Return(c)

Spec == Init /\ [][Next]_vars

\* The session with two callers whose calls may overlap: the class holds no
\* lock, and every await is a point where another caller's call may run.
InitConc ==
    /\ peripheral = None
    /\ nextTok = 1
    /\ handed = {}
    /\ bleakPresent \in BOOLEAN
    /\ concurrent = TRUE
    /\ prev = NoPrev
    /\ call = [c \in Callers |-> IdleCall]

SpecConc == InitConc /\ [][Next]_vars

\* ---- properties ----

Done(c) == call[c].pc = "done"
NeedsConnection == {"read_handle", "write_handle", "wait_for_notification"}

\* Tokens the transport granted and the session never passed to disconnect().
Unreleased == (1..(nextTok - 1)) \ handed

\* C1: read_handle, write_handle and wait_for_notification invoked while no
\* token is stored raise the "not connected" BluetoothBackendException and
\* make no call on the transport provider, whatever calls came before.
C1_DisconnectedCallFails ==
    \A c \in Callers :
        (call[c].op \in NeedsConnection /\ call[c].pre = None) =>
            /\ call[c].calls = <<>>
            /\ call[c].pending = <<>>
            /\ call[c].pc \in {"wrapper", "func", "coro", "done"}
            /\ Done(c) => (call[c].kind = "raise" /\ call[c].exc = "NotConnected")

\* C1 witness: a wait_for_notification refused after a connect and a
\* disconnect have taken place.
C1_Witness ==
    \E c \in Callers :
        /\ Done(c) /\ call[c].op = "wait_for_notification" /\ call[c].pre = None
        /\ call[c].exc = "NotConnected"
        /\ prev.op = "disconnect" /\ nextTok > 1

\* C2: with bleak present, a callable that raises a transient error on its
\* first k invocations and then succeeds is invoked k+1 times and its value
\* returned when k < RETRY_LIMIT; when k >= RETRY_LIMIT it is invoked exactly
\* RETRY_LIMIT times and BluetoothBackendException is raised.  No wrapped
\* call ever invokes its function more than RETRY_LIMIT times.
C2_RetryBound ==
    \A c \in Callers :
        bleakPresent =>
            /\ call[c].attempts <= RETRY_LIMIT
            /\ (Done(c) /\ call[c].op = "sync" /\ call[c].plan.then = "ok") =>
                  IF call[c].plan.k < RETRY_LIMIT
                  THEN /\ call[c].kind = "return" /\ call[c].ret = "ok"
                       /\ call[c].attempts = call[c].plan.k + 1
                  ELSE /\ call[c].kind = "raise" /\ call[c].exc = "RetryExhausted"
                       /\ call[c].attempts = RETRY_LIMIT

\* C2 witness: the boundary case, exactly RETRY_LIMIT transient failures
\* before the callable would succeed.
C2_Witness ==
    \E c \in Callers :
        /\ bleakPresent /\ Done(c) /\ call[c].op = "sync"
        /\ call[c].plan = [k |-> RETRY_LIMIT, then |-> "ok"]
        /\ call[c].exc = "RetryExhausted"

\* C3: a non-transient error is not retried.  The invocation that raises it
\* is the last one, no delay follows it, and the caller gets that error, not
\* the retry-exhausted exception; raised by the first invocation it costs one
\* attempt and no delay.  The "not connected" error of a session method
\* reaches the caller after a single invocation and no delay.
C3_NonTransientNotRetried ==
    \A c \in Callers :
        (bleakPresent /\ Done(c)) =>
            /\ (call[c].op = "sync" /\ call[c].plan.then = "OtherError"
                   /\ call[c].plan.k < RETRY_LIMIT) =>
                  /\ call[c].kind = "raise" /\ call[c].exc = "OtherError"
                  /\ call[c].cause = 0
                  /\ call[c].attempts = call[c].plan.k + 1
                  /\ call[c].delays = call[c].plan.k
            /\ (call[c].op \in NeedsConnection /\ call[c].pre = None) =>
                  /\ call[c].exc = "NotConnected"
                  /\ call[c].attempts = 1 /\ call[c].delays = 0

\* C3 witness: the callable raises a non-transient error at once.
C3_Witness ==
    \E c \in Callers :
        /\ bleakPresent /\ Done(c) /\ call[c].op = "sync"
        /\ call[c].plan = [k |-> 0, then |-> "OtherError"]
        /\ call[c].exc = "OtherError" /\ call[c].attempts = 1

\* C4 (as claimed): after a disconnect() started with a token stored, the
\* session holds no token, whether the call returned or raised.
C4_ClearedAfterDisconnect ==
    \A c \in Callers :
        (Done(c) /\ call[c].op = "disconnect" /\ call[c].pre /= None) =>
            peripheral = None

\* C5 (as claimed): a disconnect() that directly follows a disconnect()
\* returns without error, makes no release call and leaves no token stored.
C5_SecondDisconnectQuiet ==
    \A c \in Callers :
        (Done(c) /\ call[c].op = "disconnect" /\ prev.op = "disconnect") =>
            /\ call[c].kind = "return"
            /\ call[c].calls = <<>>
            /\ peripheral = None

\* C6 (as claimed): no connect, disconnect, read_handle, write_handle or
\* scan_for_devices call ends with the raw transient transport error; a
\* transport failure reaches the caller as BluetoothBackendException only.
C6_OnlyBackendError ==
    \A c \in Callers :
        (Done(c) /\ call[c].kind = "raise"
            /\ call[c].op \in SessionOps \ {"wait_for_notification"}) =>
            ~IsTransient(call[c].exc)

\* C7 (as claimed): at most one granted connection is unreleased, and it is
\* the token the session stores.
C7_AtMostOneConnection ==
    /\ Cardinality(Unreleased) <= 1
    /\ Unreleased \subseteq {peripheral}

\* C8: connect() started with no token stored ends with the granted token
\* stored when the transport's connect succeeds, and with no token stored
\* when it fails, whatever error the caller sees.
C8_ConnectOutcome ==
    \A c \in Callers :
        (Done(c) /\ call[c].op = "connect" /\ call[c].pre = None) =>
            /\ call[c].kind = "return" =>
                  /\ peripheral /= None /\ peripheral = nextTok - 1
                  /\ Len(call[c].calls) = 1 /\ call[c].calls[1].ret = "token"
            /\ call[c].kind = "raise" => peripheral = None
            /\ (call[c].calls /= <<>> /\ call[c].calls[1].ret /= "token") =>
                  (call[c].kind = "raise" /\ peripheral = None)

\* C8 witness: the transport's connect failed on a disconnected session.
C8_Witness ==
    \E c \in Callers :
        /\ Done(c) /\ call[c].op = "connect" /\ call[c].pre = None
        /\ call[c].calls /= <<>> /\ call[c].calls[1].ret = "BleakError"
        /\ call[c].kind = "raise"

\* C9: on a connected session and for a handle h >= 1, read_handle(h) makes
\* exactly one transport call, a read of native handle h - 1 on the stored
\* token, and returns what that read returned; write_handle(h, v) makes
\* exactly one transport call, a write of v to native handle h - 1 with the
\* acknowledgment flag set.
C9_HandleAdjustment ==
    \A c \in Callers :
        (Done(c) /\ call[c].pre /= None /\ call[c].handle >= 1) =>
            /\ call[c].op = "read_handle" =>
                  /\ Len(call[c].calls) = 1
                  /\ call[c].calls[1].fn = "read_gatt_char"
                  /\ call[c].calls[1].tok = call[c].pre
                  /\ call[c].calls[1].h = call[c].handle - 1
                  /\ call[c].kind = "return" => call[c].ret = call[c].calls[1].ret
            /\ call[c].op = "write_handle" =>
                  /\ Len(call[c].calls) = 1
                  /\ call[c].calls[1].fn = "write_gatt_char"
                  /\ call[c].calls[1].tok = call[c].pre
                  /\ call[c].calls[1].h = call[c].handle - 1
                  /\ call[c].calls[1].v = call[c].value
                  /\ call[c].calls[1].ack = TRUE

\* C9 witness: a read of handle 1 on a connected session returned bytes.
C9_Witness ==
    \E c \in Callers :
        /\ Done(c) /\ call[c].op = "read_handle" /\ call[c].pre /= None
        /\ call[c].handle = 1 /\ call[c].kind = "return" /\ call[c].ret = "b1"

\* C10 (as claimed): wait_for_notification on a connected session has made
\* the transport write of the listen payload before it registers the
\* delegate and before it waits for notifications.
C10_ListenWrittenFirst ==
    \A c \in Callers :
        (call[c].op = "wait_for_notification" /\ call[c].pre /= None) =>
            \A i \in 1..Len(call[c].calls) :
                call[c].calls[i].fn \in {"withDelegate", "waitForNotifications"} =>
                    \E j \in 1..(i - 1) :
                        /\ call[c].calls[j].fn = "write_gatt_char"
                        /\ call[c].calls[j].v = DATA_MODE_LISTEN

\* C11: the BluetoothBackendException of an exhausted retry loop is raised
\* from the error of the last invocation, the RETRY_LIMIT-th: not from an
\* earlier one and not from nothing.
C11_CauseIsLastError ==
    \A c \in Callers :
        (bleakPresent /\ Done(c) /\ call[c].exc = "RetryExhausted") =>
            /\ call[c].cause = call[c].attempts
            /\ call[c].cause = RETRY_LIMIT

\* C11 witness: an exhausted call whose callable would have failed once more.
C11_Witness ==
    \E c \in Callers :
        /\ bleakPresent /\ Done(c) /\ call[c].exc = "RetryExhausted"
        /\ call[c].plan.k > RETRY_LIMIT /\ call[c].cause = RETRY_LIMIT

\* C12: scan_for_devices does not depend on the session: it never raises the
\* "not connected" error, passes no token to the transport, and the stored
\* token during and after the call is the one stored before it.
C12_ScanStateless ==
    \A c \in Callers :
        call[c].op = "scan_for_devices" =>
            /\ peripheral = call[c].pre
            /\ call[c].exc /= "NotConnected"
            /\ \A i \in 1..Len(call[c].calls) : call[c].calls[i].tok = None

\* C12 witness: a scan returned its result on a session with no token.
C12_Witness ==
    \E c \in Callers :
        /\ Done(c) /\ call[c].op = "scan_for_devices" /\ call[c].pre = None
        /\ call[c].kind = "return" /\ call[c].calls /= <<>>

\* C13: the list scan_for_devices returns has one (address, name) pair per
\* discovered device, in discovery order: same length, i-th pair from the
\* i-th device, duplicates and absent names kept.
C13_ScanResultInOrder ==
    \A c \in Callers :
        (Done(c) /\ call[c].op = "scan_for_devices" /\ call[c].kind = "return") =>
            /\ Len(call[c].scanned) = Len(call[c].discovered)
            /\ \A i \in 1..Len(call[c].discovered) :
                  call[c].scanned[i] =
                      <<call[c].discovered[i].address, call[c].discovered[i].name>>

\* C13 witness: the same nameless device was discovered twice.
C13_Witness ==
    \E c \in Callers :
        /\ Done(c) /\ call[c].op = "scan_for_devices" /\ call[c].kind = "return"
        /\ Len(call[c].discovered) = 2
        /\ call[c].discovered[1] = call[c].discovered[2]
        /\ call[c].discovered[1].name = "NoName"
        /\ Len(call[c].scanned) = 2

\* C14: check_backend never raises; it returns True exactly when bleak can
\* be imported, and otherwise logs one error and returns False.
C14_CheckBackend ==
    \A c \in Callers :
        (Done(c) /\ call[c].op = "check_backend") =>
            /\ call[c].kind = "return"
            /\ (call[c].ret = "True") <=> bleakPresent
            /\ ~bleakPresent => (call[c].ret = "False" /\ call[c].errlog = 1)
            /\ bleakPresent => call[c].errlog = 0

\* C14 witness: check_backend answered False with bleak missing.
C14_Witness ==
    \E c \in Callers :
        /\ Done(c) /\ call[c].op = "check_backend" /\ ~bleakPresent
        /\ call[c].ret = "False"

\* C15 (as claimed): a wrapped call that made n invocations served exactly
\* n - 1 delays, so none after the last invocation of an exhausted call.
C15_DelaysBetweenOnly ==
    \A c \in Callers :
        (bleakPresent /\ Done(c) /\ call[c].op = "sync") =>
            call[c].delays = call[c].attempts - 1

\* C15 (amended): the wrapper serves one delay after every transient
\* failure, the last one included: a call that returns after n invocations
\* served n - 1 delays, an exhausted call served RETRY_LIMIT delays, the last
\* of them after its final invocation and before the exception is raised.
C15_DelayPerFailure ==
    \A c \in Callers :
        (bleakPresent /\ call[c].op = "sync") =>
            /\ call[c].delays = call[c].error_count
            /\ (Done(c) /\ call[c].kind = "return") =>
                  call[c].delays = call[c].attempts - 1
            /\ (Done(c) /\ call[c].exc = "RetryExhausted") =>
                  (call[c].delays = call[c].attempts /\ call[c].delays = RETRY_LIMIT)

\* C15 witness: an exhausted call with its three delays served.
C15_Witness ==
    \E c \in Callers :
        /\ bleakPresent /\ Done(c) /\ call[c].op = "sync"
        /\ call[c].exc = "RetryExhausted" /\ call[c].delays = RETRY_LIMIT

\* C16: with bleak missing a decorated function is the function itself: one
\* invocation, no delay, the function's own value or its own error as the
\* outcome, never the retry-exhausted exception.
C16_PassthroughWhenAbsent ==
    \A c \in Callers :
        (~bleakPresent /\ Done(c) /\ Decorated(call[c].op)) =>
            /\ call[c].attempts = 1 /\ call[c].delays = 0 /\ call[c].error_count = 0
            /\ call[c].exc /= "RetryExhausted"
            /\ call[c].op = "sync" =>
                  LET e == SyncOutcome(call[c].plan, 1) IN
                  IF e = "ok" THEN call[c].kind = "return" /\ call[c].ret = "ok"
                  ELSE call[c].kind = "raise" /\ call[c].exc = e /\ call[c].cause = 0

\* C16 witness: a transient error of the callable reached the caller raw.
C16_Witness ==
    \E c \in Callers :
        /\ ~bleakPresent /\ Done(c) /\ call[c].op = "sync"
        /\ call[c].plan.k = RETRY_LIMIT /\ call[c].exc = "BleakError"
        /\ call[c].attempts = 1

\* The smaller of two numbers.
Min(a, b) == IF a < b THEN a ELSE b

\* C17: the failure count belongs to the call: at every moment a wrapped
\* call's error_count is the number of its own failed invocations, whatever
\* earlier or overlapping calls did, so a callable that fails fewer than
\* RETRY_LIMIT times always gets through, and a session method's count is 0.
C17_BudgetPerCall ==
    \A c \in Callers :
        bleakPresent =>
            /\ call[c].op = "sync" =>
                  call[c].error_count = Min(call[c].attempts, call[c].plan.k)
            /\ call[c].op /= "sync" => call[c].error_count = 0
            /\ (Done(c) /\ call[c].op = "sync" /\ call[c].plan.then = "ok"
                   /\ call[c].plan.k < RETRY_LIMIT) =>
                  (call[c].kind = "return" /\ call[c].attempts = call[c].plan.k + 1)

\* C17 witness: of two overlapping calls one exhausted its budget and the
\* other still used all of its RETRY_LIMIT invocations and succeeded.
C17_Witness ==
    \E c, d \in Callers :
        /\ c /= d /\ bleakPresent /\ concurrent
        /\ Done(c) /\ call[c].op = "sync" /\ call[c].exc = "RetryExhausted"
        /\ Done(d) /\ call[d].op = "sync" /\ call[d].kind = "return"
        /\ call[d].attempts = RETRY_LIMIT

\* C18: nothing guards the token between callers.  A disconnect() whose
\* release returns clears whatever token is stored at that moment, without
\* releasing it, even if it is not the token this call released; and a
\* disconnect() that finds a token stored releases it even if another
\* disconnect() has already passed it to the transport.
C18_TokenRace ==
    [][\A c \in Callers :
          /\ (call[c].pc = "disc_await" /\ call'[c].kind = "return") =>
                (peripheral' = None /\ handed' = handed)
          /\ (call[c].pc = "coro" /\ call[c].op = "disconnect"
                 /\ peripheral /= None /\ call'[c] /= call[c]) =>
                /\ call'[c].pc = "disc_await"
                /\ call'[c].calls[1].tok = peripheral
                /\ call'[c].calls[1].fn = "disconnect"]_vars

\* C18 witness: a disconnect() released token 1, a connect() overlapping it
\* stored token 2, and the disconnect() then cleared it: no token is stored
\* and connection 2 was never released.
C18_Witness ==
    \E c, d \in Callers :
        /\ concurrent /\ c /= d
        /\ Done(c) /\ call[c].op = "disconnect" /\ call[c].kind = "return"
        /\ Done(d) /\ call[d].op = "connect" /\ call[d].kind = "return"
        /\ call[c].calls /= <<>> /\ call[c].calls[1].tok = 1
        /\ peripheral = None /\ Unreleased = {2}

\* Two overlapping disconnect() calls have both passed the same token to the
\* transport's disconnect.
DoubleRelease ==
    \E c, d \in Callers :
        /\ c /= d
        /\ call[c].pc = "disc_await" /\ call[d].pc = "disc_await"
        /\ call[c].calls[1].tok = call[d].calls[1].tok

\* C19: read_handle and write_handle leave the stored token as it was, for
\* every outcome; the token changes only in a step that completes the
\* awaited transport call of a connect() or a disconnect().
C19_ReadWriteKeepToken ==
    [][/\ \A c \in Callers :
             call[c].op \in {"read_handle", "write_handle"} =>
                 /\ peripheral' = peripheral
                 /\ call'[c].pc = "done" => peripheral' = call[c].pre
       /\ peripheral' /= peripheral =>
             \E c \in Callers :
                 /\ call[c].pc \in {"connect_await", "disc_await"}
                 /\ call'[c].pc = "done"]_vars

\* C19 witness: a read failed in the transport and the token is still stored.
C19_Witness ==
    \E c \in Callers :
        /\ Done(c) /\ call[c].op = "read_handle" /\ call[c].pre /= None
        /\ call[c].kind = "raise" /\ call[c].exc = "BleakError"
        /\ peripheral = call[c].pre

\* A step of the call the caller has in progress.
CallStep(c) ==
    \/ WrapperAttempt(c) \/ WrapperExhausted(c) \/ Passthrough(c)
    \/ ConnectBody(c) \/ ConnectResume(c)
    \/ DisconnectBody(c) \/ DisconnectResume(c)
    \/ ReadBody(c) \/ ReadResume(c) \/ WriteBody(c) \/ WriteResume(c)
    \/ NotifyBody(c) \/ ScanBody(c) \/ ScanResume(c) \/ CheckBackend(c)
    \/ Return(c)

\* C20: the session starts with no token and never gets stuck: a call in
\* progress can always go on, a caller that is back can start a disconnect(),
\* and in every reachable state a connect() whose transport call succeeds
\* leaves a token stored and a disconnect() whose release succeeds leaves
\* none.
C20_Reusable ==
    /\ peripheral = None
    /\ [](\A c \in Callers :
             /\ call[c].pc /= "idle" => ENABLED CallStep(c)
             /\ (\A d \in Callers : call[d].pc = "idle") =>
                   ENABLED StartCall(c, "disconnect", 0, "b0", NoPlan))
    /\ [][\A c \in Callers :
             /\ (call[c].pc = "connect_await" /\ call'[c].kind = "return") =>
                   peripheral' /= None
             /\ (call[c].pc = "disc_await" /\ call'[c].kind = "return") =>
                   peripheral' = None]_vars

\* C20 witness: a connect() succeeded on a session whose previous call
\* failed and which had been through a release before.
C20_Witness ==
    \E c \in Callers :
        /\ Done(c) /\ call[c].op = "connect" /\ call[c].kind = "return"
        /\ peripheral /= None
        /\ prev.kind = "raise" /\ handed /= {}

====
